---- MODULE Spec2Model ----
(***************************************************************************)
(* audio-vis: the filter chain and feature pipeline of gen.py, driven by    *)
(* the Gradio wiring of ui.py.  One analyze_audio invocation is a process   *)
(* that walks through librosa.load, the three filter stages, the eleven     *)
(* plot functions and the return; pyplot's current figure is the one piece  *)
(* of state that all invocations of the Python process share.               *)
(***************************************************************************)
EXTENDS Integers, Sequences, FiniteSets, TLC

\* ---------------------------------------------------------------- bounds
MaxLen == 2
NumInvocations == 2
MaxPreemptions == 2

\* ------------------------------------------------------ program constants
FILTER_UPPER_BOUND == 20000
FILTER_LOWER_BOUND == 0
DefaultSampleRate == 22050
ButterOrder == 5
BelowNyquistLow == 50
BelowNyquistHigh == 100

Invocations == 1..NumInvocations

\* The slider of ui.py ranges over FILTER_LOWER_BOUND - 1 .. FILTER_UPPER_BOUND
\* in steps of 1 and starts at FILTER_LOWER_BOUND - 1; the values kept here are
\* the ends of that range, the lower bound itself, two frequencies below the
\* Nyquist frequency and the Nyquist frequency of the decoder's rate.
SliderDefault == FILTER_LOWER_BOUND - 1

SliderValues ==
    { SliderDefault, FILTER_LOWER_BOUND, BelowNyquistLow, BelowNyquistHigh,
      DefaultSampleRate \div 2, FILTER_UPPER_BOUND }

\* ------------------------------------------------------------ sample data
\* A sample is a term: the k-th decoded amplitude of the file, or the value a
\* causal recursive filter computes from the input samples up to its index.
RawSample(k) == [op |-> "raw", arg |-> <<k>>, in |-> <<>>]

\* What librosa.load can hand back: a mono buffer (possibly empty) at the
\* default target rate.
Decoded(n) == [k \in 1..n |-> RawSample(k)]

DecodedBuffers == { Decoded(n) : n \in 0..MaxLen }

SampleRates == { DefaultSampleRate }

\* ---------------------------------------------------------- butter_filter
\* cutoff / nyquist with nyquist = 0.5 * fs, kept exact as a fraction.
Normalize(cutoff, fs) == [num |-> 2 * cutoff, den |-> fs]

NormalCutoff(cutoff, fs) == [k \in 1..Len(cutoff) |-> Normalize(cutoff[k], fs)]

\* scipy.signal.butter(order, Wn, btype, analog=False): rejects a critical
\* frequency outside (0, 1) and a band whose edges are not increasing.
butter(order, Wn, btype) ==
    IF \E k \in 1..Len(Wn) : Wn[k].num <= 0
    THEN [ok |-> FALSE, error |-> "ValueError"]
    ELSE IF Len(Wn) > 1 /\ ~(Wn[1].num * Wn[2].den < Wn[2].num * Wn[1].den)
    THEN [ok |-> FALSE, error |-> "ValueError"]
    ELSE IF \E k \in 1..Len(Wn) : Wn[k].num >= Wn[k].den
    THEN [ok |-> FALSE, error |-> "ValueError"]
    ELSE [ok |-> TRUE, error |-> "none",
          coef |-> [order |-> order, btype |-> btype,
                    Wn |-> [k \in 1..Len(Wn) |-> Wn[k].num]]]

\* A variant that writes one sample fewer than it reads.
lfilterShort(coef, data) ==
    [n \in 1..(Len(data) - 1) |->
        [op |-> coef.btype, arg |-> coef.Wn, in |-> SubSeq(data, 1, n)]]

\* scipy.signal.lfilter(b, a, data): one output sample per input sample, each
\* a function of the coefficients and of the input up to that index.
lfilter(coef, data) ==
    [n \in 1..Len(data) |->
        [op |-> coef.btype, arg |-> coef.Wn, in |-> SubSeq(data, 1, n)]]

butter_filter(data, cutoff, fs, btype) ==
    LET design == butter(ButterOrder, NormalCutoff(cutoff, fs), btype)
    IN  IF design.ok
        THEN [ok |-> TRUE, error |-> "none", y |-> lfilter(design.coef, data)]
        ELSE [ok |-> FALSE, error |-> design.error, y |-> <<>>]

\* ------------------------------------------------------- the plot program
\* The statements of analyze_audio after the filter chain, in program order.
Statements ==
    << "waveform", "spectrogram", "mfcc", "zcr", "spectral_centroid",
       "spectral_bandwidth", "rms", "spectral_contrast", "spectral_rolloff",
       "onset_env", "tempo", "tempogram" >>

PlotVars == { Statements[k] : k \in 1..Len(Statements) } \ { "onset_env" }

\* The steps of one statement.  plot_waveform and plot_spectrogram open the
\* figure before they compute; the other plot functions compute first.
Body(s) ==
    IF s = "onset_env" THEN << "compute" >>
    ELSE IF s \in { "waveform", "spectrogram" }
    THEN << "figure", "compute", "draw", "save" >>
    ELSE << "compute", "figure", "draw", "save" >>

\* The title each plot function writes on the figure.
Title(s) ==
    CASE s = "waveform" -> "Waveform"
      [] s = "spectrogram" -> "Spectrogram"
      [] s = "mfcc" -> "MFCC"
      [] s = "zcr" -> "Zero Crossing Rate"
      [] s = "spectral_centroid" -> "Spectral Centroid"
      [] s = "spectral_bandwidth" -> "Spectral Bandwidth"
      [] s = "rms" -> "RMS Energy"
      [] s = "spectral_contrast" -> "Spectral Contrast"
      [] s = "spectral_rolloff" -> "Spectral Rolloff"
      [] s = "tempo" -> "Tempo"
      [] s = "tempogram" -> "Tempogram"

\* The tuple of the return statement.
ReturnOrder ==
    << "waveform", "spectrogram", "mfcc", "zcr", "spectral_centroid",
       "spectral_bandwidth", "rms", "spectral_contrast", "spectral_rolloff",
       "tempo", "tempogram" >>

\* The components in the order the page lays them out, row by row.
UiOutputsByLayout ==
    << [component |-> "waveform", label |-> "Waveform"],
       [component |-> "spectrogram", label |-> "Spectrogram"],
       [component |-> "mfcc", label |-> "MFCC"],
       [component |-> "rms_energy", label |-> "RMS Energy"],
       [component |-> "zero_crossing_rate", label |-> "Zero Crossing Rate"],
       [component |-> "spectral_centroid", label |-> "Spectral Centroid"],
       [component |-> "spectral_bandwidth", label |-> "Spectral Bandwidth"],
       [component |-> "spectral_rolloff", label |-> "Spectral Rolloff"],
       [component |-> "spectral_contrast", label |-> "Spectral Contrast"],
       [component |-> "tempo", label |-> "Tempo"],
       [component |-> "tempogram", label |-> "Tempogram"] >>

\* The outputs list of btn.click, each component with the start of its label.
UiOutputs ==
    << [component |-> "waveform", label |-> "Waveform"],
       [component |-> "spectrogram", label |-> "Spectrogram"],
       [component |-> "mfcc", label |-> "MFCC"],
       [component |-> "zero_crossing_rate", label |-> "Zero Crossing Rate"],
       [component |-> "spectral_centroid", label |-> "Spectral Centroid"],
       [component |-> "spectral_bandwidth", label |-> "Spectral Bandwidth"],
       [component |-> "rms_energy", label |-> "RMS Energy"],
       [component |-> "spectral_contrast", label |-> "Spectral Contrast"],
       [component |-> "spectral_rolloff", label |-> "Spectral Rolloff"],
       [component |-> "tempo", label |-> "Tempo"],
       [component |-> "tempogram", label |-> "Tempogram"] >>

\* The scripts that register an analyze_audio with Gradio: ui.py and app.py
\* import gen.analyze_audio, main.py defines its own.
EntryPoints == { "ui", "main", "app" }

\* main.py's analyze_audio: the same plot calls up to spectral_rolloff.
MainStatements ==
    << "waveform", "spectrogram", "mfcc", "zcr", "spectral_centroid",
       "spectral_bandwidth", "rms", "spectral_contrast", "spectral_rolloff" >>

\* The tuple of main.py's return statement.
MainReturnOrder ==
    << "waveform", "spectrogram", "mfcc", "zcr", "spectral_centroid",
       "spectral_bandwidth", "rms", "spectral_contrast", "spectral_rolloff" >>

\* The outputs list of main.py's gr.Interface: nine unnamed images.
MainOutputs ==
    << [component |-> "outputs[0]", label |-> "Waveform"],
       [component |-> "outputs[1]", label |-> "Spectrogram"],
       [component |-> "outputs[2]", label |-> "MFCC"],
       [component |-> "outputs[3]", label |-> "Zero Crossing Rate"],
       [component |-> "outputs[4]", label |-> "Spectral Centroid"],
       [component |-> "outputs[5]", label |-> "Spectral Bandwidth"],
       [component |-> "outputs[6]", label |-> "RMS Energy"],
       [component |-> "outputs[7]", label |-> "Spectral Contrast"],
       [component |-> "outputs[8]", label |-> "Spectral Rolloff"] >>

\* The outputs list of app.py's gr.Interface: the same nine images.
AppOutputs ==
    << [component |-> "outputs[0]", label |-> "Waveform"],
       [component |-> "outputs[1]", label |-> "Spectrogram"],
       [component |-> "outputs[2]", label |-> "MFCC"],
       [component |-> "outputs[3]", label |-> "Zero Crossing Rate"],
       [component |-> "outputs[4]", label |-> "Spectral Centroid"],
       [component |-> "outputs[5]", label |-> "Spectral Bandwidth"],
       [component |-> "outputs[6]", label |-> "RMS Energy"],
       [component |-> "outputs[7]", label |-> "Spectral Contrast"],
       [component |-> "outputs[8]", label |-> "Spectral Rolloff"] >>

\* The output components an entry point declares for its function.
OutputsOf(e) ==
    CASE e = "ui" -> UiOutputs
      [] e = "main" -> MainOutputs
      [] e = "app" -> AppOutputs

StatementIndex(s) == CHOOSE k \in 1..Len(Statements) : Statements[k] = s

NoData == [feature |-> "none", of |-> <<>>]

NoFigure == [num |-> 0, owner |-> 0, feature |-> "none", drawn |-> <<>>]

NoImage == [figure |-> 0, owner |-> 0, feature |-> "none", pixels |-> <<>>]

NoError == [kind |-> "none", at |-> "none"]

DefaultArgs ==
    [highpass_cutoff |-> SliderDefault, lowpass_cutoff |-> SliderDefault,
     bandpass_low |-> SliderDefault, bandpass_high |-> SliderDefault]

SliderArgs ==
    [highpass_cutoff : SliderValues, lowpass_cutoff : SliderValues,
     bandpass_low : SliderValues, bandpass_high : SliderValues]

\* ------------------------------------------------------------------ state
VARIABLES
    entry,      \* entry[i]: the script whose wiring started invocation i
    pc,         \* pc[i]: the statement invocation i is at
    ip,         \* ip[i]: the step within the statement's body
    file,       \* file[i]: the samples the uploaded file decodes to
    args,       \* args[i]: the four slider values of the request
    sr,         \* sr[i]: the sample rate librosa.load returned
    y,          \* y[i]: the local y of analyze_audio / apply_filters
    calls,      \* calls[i]: the butter_filter calls made, in order
    chainRuns,  \* chainRuns[i]: how often apply_filters was entered
    err,        \* err[i]: the exception that left analyze_audio, if any
    data,       \* data[i]: the feature array of the running plot function
    onset_env,  \* onset_env[i]: the local onset_env
    imgs,       \* imgs[i]: the local image variables
    result,     \* result[i]: the returned tuple
    shown,      \* shown[i]: what the output components display
    gcf,        \* pyplot's current figure (module state of matplotlib)
    nfigs,      \* the number of figures pyplot holds open
    running,    \* the invocation that took the last step
    preempts    \* how often a running invocation was preempted

vars ==
    << entry, pc, ip, file, args, sr, y, calls, chainRuns, err, data, onset_env,
       imgs, result, shown, gcf, nfigs, running, preempts >>

\* ------------------------------------------------------------- scheduling
Terminated(i) == pc[i] \in { "idle", "done", "raised" }

\* Gradio runs each request's function on a worker thread.  Invocation i takes
\* the next step; taking over from an invocation that could still run is a
\* preemption, and a behaviour has at most MaxPreemptions of them.
Schedule(i) ==
    /\ IF running \in { 0, i } THEN TRUE
       ELSE IF Terminated(running) THEN TRUE ELSE preempts < MaxPreemptions
    /\ running' = i
    /\ preempts' =
         IF running \in { 0, i } THEN preempts
         ELSE IF Terminated(running) THEN preempts ELSE preempts + 1

\* ----------------------------------------------------------- control flow
Goto(i, next) ==
    /\ pc' = [pc EXCEPT ![i] = next]
    /\ ip' = [ip EXCEPT ![i] = 1]
    /\ UNCHANGED << err, result >>

\* A handler that swallows the exception and hands back what it has so far.
PropagatePartial(i, kind) ==
    /\ pc' = [pc EXCEPT ![i] = "raised"]
    /\ ip' = ip
    /\ err' = [err EXCEPT ![i] = [kind |-> kind, at |-> pc[i]]]
    /\ result' = [result EXCEPT ![i] = << y[i] >>]

\* No try/except anywhere in gen.py: an exception leaves analyze_audio as it
\* was raised, and the function returns nothing.
Propagate(i, kind) ==
    /\ pc' = [pc EXCEPT ![i] = "raised"]
    /\ ip' = ip
    /\ err' = [err EXCEPT ![i] = [kind |-> kind, at |-> pc[i]]]
    /\ result' = result

NextStatement(s) ==
    IF StatementIndex(s) < Len(Statements)
    THEN Statements[StatementIndex(s) + 1]
    ELSE "return"

\* main.py's analyze_audio returns after spectral_rolloff.
NextStatementMain(s) ==
    IF s = MainStatements[Len(MainStatements)] THEN "return" ELSE NextStatement(s)

\* The next step of the body, or the first step of the next statement.
Advance(i) ==
    /\ IF ip[i] < Len(Body(pc[i]))
       THEN /\ pc' = pc
            /\ ip' = [ip EXCEPT ![i] = @ + 1]
       ELSE /\ pc' = [pc EXCEPT ![i] = IF entry[i] = "main"
                                       THEN NextStatementMain(pc[i])
                                       ELSE NextStatement(pc[i])]
            /\ ip' = [ip EXCEPT ![i] = 1]
    /\ UNCHANGED << err, result >>

AtStep(i, step) ==
    /\ pc[i] \in { Statements[k] : k \in 1..Len(Statements) }
    /\ Body(pc[i])[ip[i]] = step

\* ----------------------------------------------------------- apply_filters
\* A guard that lets the sentinel through.
HighPassGuardLoose(a, fs) == a.highpass_cutoff >= FILTER_LOWER_BOUND - 1

\* A guard with the Nyquist check the low-pass guard has.
HighPassGuardNyquist(a, fs) ==
    a.highpass_cutoff > FILTER_LOWER_BOUND /\ 2 * a.highpass_cutoff < fs

HighPassGuard(a, fs) == a.highpass_cutoff > FILTER_LOWER_BOUND

\* lowpass_cutoff < sr / 2, with sr / 2 a float: compared as 2 * cutoff < sr.
LowPassGuard(a, fs) ==
    a.lowpass_cutoff > FILTER_LOWER_BOUND /\ 2 * a.lowpass_cutoff < fs

\* A guard that also wants the band's edges in order.
BandPassGuardOrdered(a, fs) ==
    /\ a.bandpass_low > FILTER_LOWER_BOUND
    /\ 2 * a.bandpass_high < fs
    /\ a.bandpass_low < a.bandpass_high

BandPassGuard(a, fs) ==
    a.bandpass_low > FILTER_LOWER_BOUND /\ 2 * a.bandpass_high < fs

\* A stage that filters the decoded buffer instead of the previous output.
StageInputDecoded(i) == file[i]

\* The first argument of each butter_filter call: the local y.
StageInput(i) == y[i]

\* y = butter_filter(y, cutoff, sr, btype)
Stage(i, cutoff, btype, next) ==
    LET r == butter_filter(StageInput(i), cutoff, sr[i], btype)
    IN  /\ calls' = [calls EXCEPT ![i] =
                        Append(@, [btype |-> btype, cutoff |-> cutoff, fs |-> sr[i],
                                   data |-> StageInput(i), ok |-> r.ok,
                                   error |-> r.error, out |-> r.y])]
        /\ IF r.ok
           THEN /\ y' = [y EXCEPT ![i] = r.y]
                /\ Goto(i, next)
           ELSE /\ y' = y
                /\ Propagate(i, r.error)

Skip(i, next) ==
    /\ Goto(i, next)
    /\ UNCHANGED << y, calls >>

\* y, sr = librosa.load(file)
Load(i) ==
    /\ pc[i] = "load"
    /\ Schedule(i)
    /\ \E rate \in SampleRates : sr' = [sr EXCEPT ![i] = rate]
    /\ y' = [y EXCEPT ![i] = file[i]]
    /\ Goto(i, "highpass")
    /\ UNCHANGED << entry, file, args, calls, chainRuns, data, onset_env, imgs, shown,
                    gcf, nfigs >>

HighPass(i) ==
    /\ pc[i] = "highpass"
    /\ Schedule(i)
    /\ chainRuns' = [chainRuns EXCEPT ![i] = @ + 1]
    /\ IF HighPassGuard(args[i], sr[i])
       THEN Stage(i, << args[i].highpass_cutoff >>, "high", "lowpass")
       ELSE Skip(i, "lowpass")
    /\ UNCHANGED << entry, file, args, sr, data, onset_env, imgs, shown, gcf, nfigs >>

LowPass(i) ==
    /\ pc[i] = "lowpass"
    /\ Schedule(i)
    /\ IF LowPassGuard(args[i], sr[i])
       THEN Stage(i, << args[i].lowpass_cutoff >>, "low", "bandpass")
       ELSE Skip(i, "bandpass")
    /\ UNCHANGED << entry, file, args, sr, chainRuns, data, onset_env, imgs, shown,
                    gcf, nfigs >>

BandPass(i) ==
    /\ pc[i] = "bandpass"
    /\ Schedule(i)
    /\ IF BandPassGuard(args[i], sr[i])
       THEN Stage(i, << args[i].bandpass_low, args[i].bandpass_high >>, "band",
                  Statements[1])
       ELSE Skip(i, Statements[1])
    /\ UNCHANGED << entry, file, args, sr, chainRuns, data, onset_env, imgs, shown,
                    gcf, nfigs >>

\* ---------------------------------------------------------- plot functions
\* What a feature is computed from: tempo and tempogram take the onset
\* envelope, everything else the filtered buffer.
FeatureInput(i) ==
    IF pc[i] \in { "tempo", "tempogram" } THEN << onset_env[i] >> ELSE y[i]

\* The librosa call of the statement; it may raise.
Compute(i) ==
    /\ AtStep(i, "compute")
    /\ Schedule(i)
    /\ \E ok \in BOOLEAN :
         IF ok
         THEN /\ IF pc[i] = "onset_env"
                 THEN /\ onset_env' = [onset_env EXCEPT ![i] =
                                          [feature |-> "onset_env", of |-> y[i]]]
                      /\ data' = data
                 ELSE /\ data' = [data EXCEPT ![i] =
                                     [feature |-> pc[i], of |-> FeatureInput(i)]]
                      /\ onset_env' = onset_env
              /\ Advance(i)
         ELSE /\ Propagate(i, "LibraryError")
              /\ UNCHANGED << data, onset_env >>
    /\ UNCHANGED << entry, file, args, sr, y, calls, chainRuns, imgs, shown, gcf, nfigs >>

\* plt.figure(figsize=(14, 5)): a new figure, which becomes the current one.
Figure(i) ==
    /\ AtStep(i, "figure")
    /\ Schedule(i)
    /\ gcf' = [num |-> nfigs + 1, owner |-> i, feature |-> pc[i], drawn |-> <<>>]
    /\ nfigs' = nfigs + 1
    /\ Advance(i)
    /\ UNCHANGED << entry, file, args, sr, y, calls, chainRuns, data, onset_env, imgs,
                    shown >>

\* waveshow / specshow / plt.plot / plt.semilogy and plt.title: all of them
\* draw on pyplot's current figure.
Draw(i) ==
    /\ AtStep(i, "draw")
    /\ Schedule(i)
    /\ gcf' = [gcf EXCEPT !.drawn =
                  Append(@, [by |-> i, title |-> Title(pc[i]), data |-> data[i]])]
    /\ Advance(i)
    /\ UNCHANGED << entry, file, args, sr, y, calls, chainRuns, data, onset_env, imgs,
                    shown, nfigs >>

\* plt.savefig writes the current figure; the PNG is read back as an array.
plt_to_numpy(fig) ==
    [figure |-> fig.num, owner |-> fig.owner, feature |-> fig.feature,
     pixels |-> fig.drawn]

\* return plt_to_numpy(plt), assigned to the local named after the feature.
Save(i) ==
    /\ AtStep(i, "save")
    /\ Schedule(i)
    /\ imgs' = [imgs EXCEPT ![i][pc[i]] = plt_to_numpy(gcf)]
    /\ Advance(i)
    /\ UNCHANGED << entry, file, args, sr, y, calls, chainRuns, data, onset_env, shown,
                    gcf, nfigs >>

ReturnTuple(locals) == [k \in 1..Len(ReturnOrder) |-> locals[ReturnOrder[k]]]

ReturnTupleMain(locals) ==
    [k \in 1..Len(MainReturnOrder) |-> locals[MainReturnOrder[k]]]

Return(i) ==
    /\ pc[i] = "return"
    /\ Schedule(i)
    /\ result' = [result EXCEPT ![i] = IF entry[i] = "main"
                                       THEN ReturnTupleMain(imgs[i])
                                       ELSE ReturnTuple(imgs[i])]
    /\ pc' = [pc EXCEPT ![i] = "deliver"]
    /\ UNCHANGED << ip, err, entry, file, args, sr, y, calls, chainRuns, data, onset_env,
                    imgs, shown, gcf, nfigs >>

\* Gradio hands the k-th returned value to the k-th component of outputs.
Bind(outputs, values) ==
    [k \in 1..Len(outputs) |->
        [component |-> outputs[k].component, label |-> outputs[k].label,
         image |-> values[k]]]

\* Too few values are an error; what Gradio does with too many depends on its
\* release: it raises, or it warns and drops the values beyond the last
\* component.
Deliver(i) ==
    /\ pc[i] = "deliver"
    /\ Schedule(i)
    /\ \E strict \in BOOLEAN :
       IF \/ Len(result[i]) = Len(OutputsOf(entry[i]))
          \/ Len(result[i]) > Len(OutputsOf(entry[i])) /\ ~strict
       THEN /\ shown' = [shown EXCEPT ![i] = Bind(OutputsOf(entry[i]), result[i])]
            /\ pc' = [pc EXCEPT ![i] = "done"]
            /\ err' = err
       ELSE /\ shown' = shown
            /\ pc' = [pc EXCEPT ![i] = "raised"]
            /\ err' = [err EXCEPT ![i] = [kind |-> "ValueError", at |-> "deliver"]]
    /\ UNCHANGED << ip, result, entry, file, args, sr, y, calls, chainRuns, data,
                    onset_env, imgs, gcf, nfigs >>

\* ---------------------------------------------------------- specifications
InitLocals ==
    /\ ip = [i \in Invocations |-> 1]
    /\ sr = [i \in Invocations |-> 0]
    /\ y = [i \in Invocations |-> <<>>]
    /\ calls = [i \in Invocations |-> <<>>]
    /\ chainRuns = [i \in Invocations |-> 0]
    /\ err = [i \in Invocations |-> NoError]
    /\ data = [i \in Invocations |-> NoData]
    /\ onset_env = [i \in Invocations |-> NoData]
    /\ imgs = [i \in Invocations |-> [v \in PlotVars |-> NoImage]]
    /\ result = [i \in Invocations |-> <<>>]
    /\ shown = [i \in Invocations |-> <<>>]
    /\ gcf = NoFigure
    /\ nfigs = 0
    /\ running = 0
    /\ preempts = 0

\* One request: any decodable file, any position of the four sliders.
InitRequest ==
    /\ InitLocals
    /\ pc = [i \in Invocations |-> IF i = 1 THEN "load" ELSE "idle"]
    /\ \E f \in DecodedBuffers :
         file = [i \in Invocations |-> IF i = 1 THEN f ELSE <<>>]
    /\ \E a \in SliderArgs :
         args = [i \in Invocations |-> IF i = 1 THEN a ELSE DefaultArgs]

\* The request comes through ui.py.
Init ==
    /\ InitRequest
    /\ entry = [i \in Invocations |-> "ui"]

\* The request comes through any of the three scripts.
InitEntryPoints ==
    /\ InitRequest
    /\ \E e \in EntryPoints : entry = [i \in Invocations |-> e]

\* Requests in flight together, each with its own file, the first with the
\* high-pass slider on and the others with every slider at its default.
InitConcurrent ==
    /\ InitLocals
    /\ entry = [i \in Invocations |-> "ui"]
    /\ pc = [i \in Invocations |-> "load"]
    /\ file = [i \in Invocations |-> Decoded(i)]
    /\ args = [i \in Invocations |->
                  IF i = 1
                  THEN [DefaultArgs EXCEPT !.highpass_cutoff = BelowNyquistHigh]
                  ELSE DefaultArgs]

Next ==
    \E i \in Invocations :
        \/ Load(i)
        \/ HighPass(i)
        \/ LowPass(i)
        \/ BandPass(i)
        \/ Compute(i)
        \/ Figure(i)
        \/ Draw(i)
        \/ Save(i)
        \/ Return(i)
        \/ Deliver(i)

Spec == Init /\ [][Next]_vars

SpecConcurrent == InitConcurrent /\ [][Next]_vars

SpecEntryPoints == InitEntryPoints /\ [][Next]_vars

\* ------------------------------------------------------------ properties
ChainStages == { "highpass", "lowpass", "bandpass" }

\* apply_filters has been entered and has not returned.
InChain(i) == pc[i] \in ChainStages

\* apply_filters raised.
ChainRaised(i) == pc[i] = "raised" /\ err[i].at \in ChainStages

\* apply_filters returned a buffer.
ChainReturned(i) == pc[i] \notin { "idle", "load" } /\ ~InChain(i) /\ ~ChainRaised(i)

CallsOf(i, btype) == { k \in 1..Len(calls[i]) : calls[i][k].btype = btype }

AllDisabled(a) ==
    /\ a.highpass_cutoff = FILTER_LOWER_BOUND - 1
    /\ a.lowpass_cutoff = FILTER_LOWER_BOUND - 1
    /\ a.bandpass_low = FILTER_LOWER_BOUND - 1
    /\ a.bandpass_high = FILTER_LOWER_BOUND - 1

\* C1: with all four cutoffs at the disabled sentinel -1, apply_filters never
\* calls butter_filter, raises nothing, and the buffer it holds and returns is
\* exactly the decoded buffer.
C1_DisabledPassthrough ==
    \A i \in Invocations :
        (AllDisabled(args[i]) /\ pc[i] \notin { "idle", "load" }) =>
            /\ calls[i] = <<>>
            /\ ~ChainRaised(i)
            /\ y[i] = file[i]

\* C1 witness: the chain has returned a non-empty buffer with every cutoff disabled.
C1_Witness ==
    \E i \in Invocations :
        AllDisabled(args[i]) /\ ChainReturned(i) /\ Len(file[i]) > 0

StageRank(btype) ==
    CASE btype = "high" -> 1
      [] btype = "low" -> 2
      [] btype = "band" -> 3

\* C2: the stages applied in one run of apply_filters occur in the order
\* high-pass, low-pass, band-pass, each at most once; each takes the output of
\* the stage applied before it (the decoded buffer for the first); and the
\* buffer returned is the output of the last stage applied.
C2_StageOrdering ==
    \A i \in Invocations :
        /\ \A k \in 1..Len(calls[i]) :
              /\ k > 1 => StageRank(calls[i][k - 1].btype) < StageRank(calls[i][k].btype)
              /\ calls[i][k].data = IF k = 1 THEN file[i] ELSE calls[i][k - 1].out
        /\ ChainReturned(i) =>
              y[i] = IF calls[i] = <<>> THEN file[i]
                     ELSE calls[i][Len(calls[i])].out

\* C2 witness: all three stages were applied to a non-empty buffer and the
\* chain returned.
C2_Witness ==
    \E i \in Invocations :
        ChainReturned(i) /\ Len(calls[i]) = 3 /\ Len(file[i]) > 0

\* C3 as stated: a low-pass cutoff, a bandpass_low or a bandpass_high at or
\* above sr/2 makes the chain skip that stage without error, so butter is
\* never reached with such a cutoff for the low-pass and band-pass stages.
C3_Original ==
    \A i \in Invocations :
        pc[i] \notin { "idle", "load" } =>
            /\ 2 * args[i].lowpass_cutoff >= sr[i] =>
                  /\ CallsOf(i, "low") = {}
                  /\ ~(pc[i] = "raised" /\ err[i].at = "lowpass")
            /\ (2 * args[i].bandpass_low >= sr[i] \/ 2 * args[i].bandpass_high >= sr[i]) =>
                  /\ CallsOf(i, "band") = {}
                  /\ ~(pc[i] = "raised" /\ err[i].at = "bandpass")

\* The part of C3 the guards do give: a low-pass cutoff at or above sr/2 makes
\* the chain skip the low-pass stage without error, and a bandpass_high at or
\* above sr/2 makes it skip the band-pass stage without error; butter is never
\* reached with a low-pass cutoff or a band-pass upper cutoff at or above sr/2.
C3_GuardedCutoffs ==
    \A i \in Invocations :
        pc[i] \notin { "idle", "load" } =>
            /\ 2 * args[i].lowpass_cutoff >= sr[i] =>
                  /\ CallsOf(i, "low") = {}
                  /\ ~(pc[i] = "raised" /\ err[i].at = "lowpass")
            /\ 2 * args[i].bandpass_high >= sr[i] =>
                  /\ CallsOf(i, "band") = {}
                  /\ ~(pc[i] = "raised" /\ err[i].at = "bandpass")
            /\ \A k \in CallsOf(i, "low") : 2 * calls[i][k].cutoff[1] < calls[i][k].fs
            /\ \A k \in CallsOf(i, "band") : 2 * calls[i][k].cutoff[2] < calls[i][k].fs

\* The chain returned although the low-pass slider and the upper band-pass
\* slider are both at or above sr/2 and both stages are switched on.
C3_GuardedReached ==
    \E i \in Invocations :
        /\ ChainReturned(i)
        /\ args[i].lowpass_cutoff > 0
        /\ 2 * args[i].lowpass_cutoff >= sr[i]
        /\ args[i].bandpass_low > 0
        /\ 2 * args[i].bandpass_high >= sr[i]

\* Control has passed the band-pass stage's guard: neither earlier stage raised.
BandStagePassed(i) ==
    /\ pc[i] \notin { "idle", "load" }
    /\ ~InChain(i)
    /\ ~(pc[i] = "raised" /\ err[i].at \in { "highpass", "lowpass" })

\* C4: when the band-pass stage is reached (bandpass_low > 0 and
\* bandpass_high < sr/2) with bandpass_low >= bandpass_high, butter is invoked
\* with that band, fails with the invalid-cutoff ValueError, and apply_filters
\* returns no buffer: the call ends raised and nothing is returned.
C4_InvertedBandRejected ==
    \A i \in Invocations :
        ( /\ BandStagePassed(i)
          /\ args[i].bandpass_low > 0
          /\ 2 * args[i].bandpass_high < sr[i]
          /\ args[i].bandpass_low >= args[i].bandpass_high ) =>
            /\ calls[i] # <<>>
            /\ LET c == calls[i][Len(calls[i])]
               IN  /\ c.btype = "band"
                   /\ c.cutoff = << args[i].bandpass_low, args[i].bandpass_high >>
                   /\ ~c.ok
                   /\ c.error = "ValueError"
            /\ pc[i] = "raised"
            /\ err[i] = [kind |-> "ValueError", at |-> "bandpass"]
            /\ result[i] = <<>>

\* C4 witness: the band stage was reached with low = 100, high = 50 and raised.
C4_Witness ==
    \E i \in Invocations :
        /\ pc[i] = "raised"
        /\ err[i].at = "bandpass"
        /\ args[i].bandpass_low = BelowNyquistHigh
        /\ args[i].bandpass_high = BelowNyquistLow

\* C5 as stated: a stage one of whose cutoffs is at or below 0 is skipped: the
\* designer is not invoked for it and it raises nothing.
C5_DisabledSkipsStage ==
    \A i \in Invocations :
        pc[i] \notin { "idle", "load" } =>
            /\ args[i].highpass_cutoff <= 0 =>
                  /\ CallsOf(i, "high") = {}
                  /\ ~(pc[i] = "raised" /\ err[i].at = "highpass")
            /\ args[i].lowpass_cutoff <= 0 =>
                  /\ CallsOf(i, "low") = {}
                  /\ ~(pc[i] = "raised" /\ err[i].at = "lowpass")
            /\ (args[i].bandpass_low <= 0 \/ args[i].bandpass_high <= 0) =>
                  /\ CallsOf(i, "band") = {}
                  /\ ~(pc[i] = "raised" /\ err[i].at = "bandpass")

\* The slider value(s) a stage hands to butter_filter.
SliderCutoff(a, btype) ==
    CASE btype = "high" -> << a.highpass_cutoff >>
      [] btype = "low" -> << a.lowpass_cutoff >>
      [] btype = "band" -> << a.bandpass_low, a.bandpass_high >>

StageOf(btype) ==
    CASE btype = "high" -> "highpass"
      [] btype = "low" -> "lowpass"
      [] btype = "band" -> "bandpass"

\* C6: a failure of a filter stage or of a feature computation leaves
\* analyze_audio as it was raised and the call produces nothing: no tuple is
\* returned, no component is updated, the failed designer call is the last
\* call made (no retry, no later stage), its error is the one reported, and
\* every designer call got the slider's own value (no clamping).
C6_AllOrNothing ==
    \A i \in Invocations :
        /\ \A k \in 1..Len(calls[i]) :
              /\ calls[i][k].cutoff = SliderCutoff(args[i], calls[i][k].btype)
              /\ ~calls[i][k].ok =>
                    /\ k = Len(calls[i])
                    /\ pc[i] = "raised"
                    /\ err[i] = [kind |-> calls[i][k].error,
                                 at |-> StageOf(calls[i][k].btype)]
        /\ pc[i] = "raised" =>
              /\ err[i].kind # "none"
              /\ result[i] = <<>>
              /\ shown[i] = <<>>
        /\ result[i] # <<>> => err[i] = NoError

\* C6 witness: the band-pass stage failed after the high-pass and low-pass
\* stages had both produced a filtered buffer.
C6_Witness ==
    \E i \in Invocations :
        /\ pc[i] = "raised"
        /\ err[i].at = "bandpass"
        /\ Len(calls[i]) = 3
        /\ Len(file[i]) > 0

\* A feature has been computed or rendered.
FeatureWork(i) ==
    \/ data[i] # NoData
    \/ onset_env[i] # NoData
    \/ \E v \in PlotVars : imgs[i][v] # NoImage
    \/ pc[i] \in { Statements[k] : k \in 1..Len(Statements) } /\ ip[i] > 1

\* C7: the filter chain runs exactly once before any feature is computed; a
\* successful call returns waveform, spectrogram, MFCC, zero-crossing rate,
\* spectral centroid, spectral bandwidth, RMS, spectral contrast, spectral
\* rolloff, tempo, tempogram in that order; and each output component of
\* ui.py displays the image whose title is the component's own feature.
C7_FeatureOrdering ==
    LET order == << "waveform", "spectrogram", "mfcc", "zcr", "spectral_centroid",
                    "spectral_bandwidth", "rms", "spectral_contrast",
                    "spectral_rolloff", "tempo", "tempogram" >>
    IN  \A i \in Invocations :
            /\ chainRuns[i] <= 1
            /\ FeatureWork(i) => chainRuns[i] = 1 /\ ~InChain(i)
            /\ pc[i] \in { "deliver", "done" } =>
                  /\ Len(result[i]) = Len(order)
                  /\ \A k \in 1..Len(order) :
                        /\ result[i][k].feature = order[k]
                        /\ Len(result[i][k].pixels) = 1
                        /\ result[i][k].pixels[1].data.feature = order[k]
            /\ pc[i] = "done" =>
                  /\ Len(shown[i]) = Len(order)
                  /\ \A k \in 1..Len(order) :
                        /\ shown[i][k].image = result[i][k]
                        /\ shown[i][k].label = shown[i][k].image.pixels[1].title

\* C7 witness: a call has succeeded and its images are on display.
C7_Witness == \E i \in Invocations : pc[i] = "done" /\ Len(shown[i]) = 11

\* C8: every stage that is applied writes exactly as many samples as the
\* decoded buffer has, and so does the buffer apply_filters holds and returns.
C8_LengthPreserved ==
    \A i \in Invocations :
        /\ \A k \in 1..Len(calls[i]) :
              calls[i][k].ok => Len(calls[i][k].out) = Len(file[i])
        /\ pc[i] \notin { "idle", "load" } => Len(y[i]) = Len(file[i])

\* C8 witness: a buffer of the largest length has passed through all three stages.
C8_Witness ==
    \E i \in Invocations :
        /\ ChainReturned(i)
        /\ Len(file[i]) = MaxLen
        /\ \A b \in { "high", "low", "band" } : CallsOf(i, b) # {}

\* C9 as stated: with an empty decoded buffer or a zero sample rate the call
\* fails with a decode error before any filter stage or feature computation
\* runs, whatever the cutoffs are.
C9_FailFastOnDegenerate ==
    \A i \in Invocations :
        (pc[i] \notin { "idle", "load" } /\ (Len(file[i]) = 0 \/ sr[i] = 0)) =>
            /\ calls[i] = <<>>
            /\ ~FeatureWork(i)
            /\ pc[i] \notin { "return", "deliver", "done" }
            /\ pc[i] = "raised" => err[i].kind = "DecodeUnavailableError"

\* C10 as stated: under every interleaving, the figure an invocation captures
\* is the one its own plot function created for that feature, drawn by that
\* invocation alone from its own feature data.
C10_Reentrant ==
    \A i \in Invocations : \A v \in PlotVars :
        imgs[i][v] # NoImage =>
            /\ imgs[i][v].owner = i
            /\ imgs[i][v].feature = v
            /\ \A k \in 1..Len(imgs[i][v].pixels) : imgs[i][v].pixels[k].by = i

\* C11: the high-pass stage is designed and applied whenever highpass_cutoff
\* is above 0, with no check against Nyquist; so for every highpass_cutoff at
\* or above sr/2 butter is invoked with it, fails with the invalid-cutoff
\* ValueError, and neither the low-pass nor the band-pass stage runs.
C11_UnguardedHighPass ==
    \A i \in Invocations :
        (pc[i] \notin { "idle", "load", "highpass" } /\ args[i].highpass_cutoff > 0) =>
            /\ calls[i] # <<>>
            /\ calls[i][1].btype = "high"
            /\ calls[i][1].cutoff = << args[i].highpass_cutoff >>
            /\ 2 * args[i].highpass_cutoff >= sr[i] =>
                  /\ ~calls[i][1].ok
                  /\ calls[i][1].error = "ValueError"
                  /\ pc[i] = "raised"
                  /\ err[i] = [kind |-> "ValueError", at |-> "highpass"]
                  /\ CallsOf(i, "low") = {}
                  /\ CallsOf(i, "band") = {}
                  /\ result[i] = <<>>

\* C11 witness: the high-pass slider is at its upper end, above sr/2, the
\* other stages are switched on with valid cutoffs, and the call has raised.
C11_Witness ==
    \E i \in Invocations :
        /\ pc[i] = "raised"
        /\ err[i].at = "highpass"
        /\ args[i].highpass_cutoff = FILTER_UPPER_BOUND
        /\ args[i].lowpass_cutoff = BelowNyquistHigh
        /\ args[i].bandpass_low = BelowNyquistLow
        /\ args[i].bandpass_high = BelowNyquistHigh

\* C12: for every entry point, the number of values its analyze_audio
\* returns on success equals the number of output components it declares, so
\* every returned image is bound to a component, no component is left
\* unbound, and the delivery raises nothing.
C12_ArityMatchesWiring ==
    \A i \in Invocations :
        /\ pc[i] \in { "deliver", "done" } =>
              Len(result[i]) = Len(OutputsOf(entry[i]))
        /\ pc[i] = "done" =>
              /\ Len(shown[i]) = Len(result[i])
              /\ \A k \in 1..Len(result[i]) : shown[i][k].image = result[i][k]
        /\ ~(pc[i] = "raised" /\ err[i].at = "deliver")

\* The part of C12 that holds: ui.py binds 11 values to 11 components and
\* main.py 9 values to 9 components, each image to the component of its title.
C12_UiAndMainWired ==
    \A i \in Invocations :
        entry[i] \in { "ui", "main" } =>
            /\ pc[i] \in { "deliver", "done" } =>
                  Len(result[i]) = IF entry[i] = "ui" THEN 11 ELSE 9
            /\ pc[i] = "done" =>
                  /\ Len(shown[i]) = Len(result[i])
                  /\ \A k \in 1..Len(result[i]) :
                        /\ shown[i][k].image = result[i][k]
                        /\ shown[i][k].label = result[i][k].pixels[1].title
            /\ ~(pc[i] = "raised" /\ err[i].at = "deliver")

\* A request through main.py has succeeded.
C12_MainDelivered ==
    \E i \in Invocations : entry[i] = "main" /\ pc[i] = "done" /\ Len(shown[i]) = 9

====
